---- MODULE Spec2Model ----
(***************************************************************************)
(* Model of regua_app: the Theme-Rule-Link (TemaRegra) store with its      *)
(* edit-time cycle check, the Rule (Regra) store with its default rule,    *)
(* the schedule (DiaComunicacao) and the Mermaid diagram generator.        *)
(*                                                                         *)
(* Tables are functions from primary key to row.  A NULL column is 0 (ids  *)
(* start at 1, and the code tests ids by truthiness).  Foreign keys are    *)
(* enforced (PRAGMA foreign_keys = ON on every request): a request whose   *)
(* commit would violate one fails and changes nothing, so it is a disabled *)
(* action here.  Texts are sequences of one-character strings.             *)
(***************************************************************************)
EXTENDS Integers, Sequences, FiniteSets, TLC

VARIABLES temas, regras, links, dias, resp, diagrama, cadeia, passeio

vars == <<temas, regras, links, dias, resp, diagrama, cadeia, passeio>>

(* Bounds of the model *)
MaxLinks == 3
MaxDias == 2
MaxRegras == 3

NULL == 0

fim_dia_valor == 99999

(***************************************************************************)
(* Generic helpers                                                         *)
(***************************************************************************)
Max(S) == CHOOSE x \in S : \A y \in S : y <= x

Min(S) == CHOOSE x \in S : \A y \in S : x <= y

RECURSIVE sorted(_)
sorted(S) == IF S = {} THEN <<>> ELSE <<Min(S)>> \o sorted(S \ {Min(S)})

Tabela0 == [i \in {} |-> NULL]

\* SQLite rowid allocation for INTEGER PRIMARY KEY: one more than the largest
NovoId(tab) == IF DOMAIN tab = {} THEN 1 ELSE Max(DOMAIN tab) + 1

\* Query.get(id): the row's key, or NULL (None) when there is no such row
Get(tab, id) == IF id \in DOMAIN tab THEN id ELSE NULL

Remove(tab, ids) == [i \in DOMAIN tab \ ids |-> tab[i]]

Insere(tab, id, row) == [i \in DOMAIN tab \cup {id} |-> IF i = id THEN row ELSE tab[i]]

(***************************************************************************)
(* Texts                                                                   *)
(***************************************************************************)
SemRegra == <<"S", "e", "m", " ", "R", "e", "g", "r", "a">>

sem_regra == <<"s", "e", "m", " ", "r", "e", "g", "r", "a">>

Abriu == <<"A", "b", "r", "i", "u">>

Branco == <<" ">>

Espacos == {" ", "\n", "\t"}

lower_char(c) ==
    CASE c = "S" -> "s"
      [] c = "R" -> "r"
      [] c = "A" -> "a"
      [] OTHER -> c

lower(t) == [i \in 1..Len(t) |-> lower_char(t[i])]

RECURSIVE lstrip(_)
lstrip(t) == IF t # <<>> /\ Head(t) \in Espacos THEN lstrip(Tail(t)) ELSE t

RECURSIVE rstrip(_)
rstrip(t) ==
    IF t # <<>> /\ t[Len(t)] \in Espacos THEN rstrip(SubSeq(t, 1, Len(t) - 1)) ELSE t

strip(t) == rstrip(lstrip(t))

RECURSIVE replace_chars(_)
replace_chars(t) ==
    IF t = <<>> THEN <<>>
    ELSE (CASE Head(t) = "\"" -> <<"'">>
            [] Head(t) = "\n" -> <<"<", "b", "r", "/", ">">>
            [] OTHER -> <<Head(t)>>) \o replace_chars(Tail(t))

sanitize(texto, default) ==
    LET t == strip(texto) IN replace_chars(IF t = <<>> THEN default ELSE t)

\* The test on the description as stored, without sanitize: blanks count as
\* a rule
has_rule_sem_strip(descricao) ==
    descricao # <<>> /\ lower(descricao) \notin {sem_regra}

has_rule(descricao) ==
    LET regra_label == sanitize(descricao, <<>>)
    IN  regra_label # <<>> /\ lower(regra_label) \notin {sem_regra}

(***************************************************************************)
(* Theme-Rule links                                                        *)
(***************************************************************************)
TemaRegra(tema_id, regra_id, alternativa_id) ==
    [tema_id |-> tema_id, regra_id |-> regra_id, alternativa_id |-> alternativa_id]

SemVinculo == TemaRegra(NULL, NULL, NULL)

Resposta(tipo, tr_id, tema_regra) ==
    [tipo |-> tipo, tr_id |-> tr_id, tema_regra |-> tema_regra]

Redirect == Resposta("redirect", NULL, SemVinculo)

SemDiagrama == [nodes |-> <<>>, edges |-> <<>>, day_nodes |-> <<>>, decision_nodes |-> <<>>]

SemCadeia == [inicial |-> NULL, cadeia |-> <<>>, passos |-> 0]

\* ON DELETE SET NULL of temas_regras.alternativa_id
AnulaAlternativa(L, ids) ==
    [i \in DOMAIN L |->
        IF L[i].alternativa_id \in ids THEN [L[i] EXCEPT !.alternativa_id = NULL] ELSE L[i]]

\* ON DELETE CASCADE of dias_comunicacoes.tema_regra_id
DiasSem(D, ids) == Remove(D, {d \in DOMAIN D : D[d].tema_regra_id \in ids})

SemPasseio ==
    [tr_id |-> NULL, alvo |-> NULL, ciclo |-> FALSE, passos |-> 0, corrente |-> NULL,
     visitados |-> {}]

\* The while loop of the cycle check, with what it leaves behind: corrente
\* (a row key, or NULL for None) and visitados when it stops, the number of
\* times its body ran, and whether it stopped by reporting a cycle
RECURSIVE CicloPasseio(_, _, _, _)
CicloPasseio(L, corrente, visitados, passos) ==
    IF corrente = NULL \/ L[corrente].alternativa_id = NULL
    THEN [ciclo |-> FALSE, passos |-> passos, corrente |-> corrente,
          visitados |-> visitados]
    ELSE IF L[corrente].alternativa_id \in visitados
    THEN [ciclo |-> TRUE, passos |-> passos + 1, corrente |-> corrente,
          visitados |-> visitados]
    ELSE CicloPasseio(L, Get(L, L[corrente].alternativa_id),
                      visitados \cup {L[corrente].alternativa_id}, passos + 1)

\* The while loop of the cycle check: corrente is a row key or NULL
CicloLoop(L, corrente, visitados) == CicloPasseio(L, corrente, visitados, 0).ciclo

\* The walk that starts with an empty visitados: the edited link is forgotten
PasseioCicloSemProprio(L, tr_id, alternativa_id) ==
    CicloPasseio(L, Get(L, alternativa_id), {}, 0)

\* The walk of the check from the proposed target: corrente is the target's
\* row and visitados starts as the edited link alone
PasseioCiclo(L, tr_id, alternativa_id) ==
    CicloPasseio(L, Get(L, alternativa_id), {tr_id}, 0)

\* The edit-time cycle check of editar_tema_regra (edit tr_id, proposed alternativa_id)
GeraCiclo(L, tr_id, alternativa_id) ==
    /\ alternativa_id # NULL
    /\ PasseioCiclo(L, tr_id, alternativa_id).ciclo

\* The commit's foreign keys on a link row
FkVinculo(L, T, R, id) ==
    /\ L[id].tema_id \in T
    /\ L[id].regra_id \in DOMAIN R
    /\ L[id].alternativa_id \in DOMAIN L \cup {NULL}

NovoTemaRegra(L, tema_id, regra_id, alternativa_id) ==
    Insere(L, NovoId(L), TemaRegra(tema_id, regra_id, alternativa_id))

\* A rejected edit whose pending theme and rule assignments reach the store
EdicaoRejeitadaComCommit(L, sessao) == sessao

\* What a rejected edit leaves in the store: the session's pending assignments
\* are never committed and are discarded with the request
EdicaoRejeitada(L, sessao) == L

\* POST of editar_tema_regra: the store and the response it produces
EditarTemaRegra(L, tr_id, tema_id, regra_id, alternativa_id) ==
    LET sessao == [L EXCEPT ![tr_id].tema_id = tema_id, ![tr_id].regra_id = regra_id]
    IN  IF GeraCiclo(sessao, tr_id, alternativa_id)
        THEN [links |-> EdicaoRejeitada(L, sessao),
              resp |-> Resposta("ciclo", tr_id, sessao[tr_id])]
        ELSE [links |-> [sessao EXCEPT ![tr_id].alternativa_id = alternativa_id],
              resp |-> Redirect]

novo_tema_regra ==
    \E tema_id \in temas, regra_id \in DOMAIN regras,
       alternativa_id \in DOMAIN links \cup {NULL, NovoId(links)} :
        /\ NovoId(links) <= MaxLinks
        /\ links' = NovoTemaRegra(links, tema_id, regra_id, alternativa_id)
        /\ FkVinculo(links', temas, regras, NovoId(links))
        /\ resp' = Redirect
        /\ diagrama' = SemDiagrama
        /\ UNCHANGED <<temas, regras, dias, cadeia, passeio>>

editar_tema_regra ==
    \E tr_id \in DOMAIN links, tema_id \in temas, regra_id \in DOMAIN regras,
       alternativa_id \in 0..MaxLinks :
        LET r == EditarTemaRegra(links, tr_id, tema_id, regra_id, alternativa_id)
        IN  /\ FkVinculo(r.links, temas, regras, tr_id)
            /\ links' = r.links
            /\ resp' = r.resp
            /\ diagrama' = SemDiagrama
            /\ UNCHANGED <<temas, regras, dias, cadeia, passeio>>

\* The delete follows the schema's ON DELETE rules: the days of the link go
\* with it and the links that had it as alternativa keep a NULL
deletar_tema_regra ==
    \E tr_id \in DOMAIN links :
        /\ links' = AnulaAlternativa(Remove(links, {tr_id}), {tr_id})
        /\ dias' = DiasSem(dias, {tr_id})
        /\ resp' = Redirect
        /\ diagrama' = SemDiagrama
        /\ UNCHANGED <<temas, regras, cadeia, passeio>>

RegrasIniciais == Insere(Insere(Tabela0, 1, SemRegra), 2, Abriu)

\* Two stores the theme and rule handlers lead to: two themes and the default
\* rule, or one theme and two rules
InitVinculo ==
    /\ \/ temas = {1, 2} /\ regras = Insere(Tabela0, 1, SemRegra)
       \/ temas = {1} /\ regras = RegrasIniciais
    /\ links = Tabela0
    /\ dias = Tabela0
    /\ resp = Resposta("inicio", NULL, SemVinculo)
    /\ diagrama = SemDiagrama
    /\ cadeia = SemCadeia
    /\ passeio = SemPasseio

NextVinculo == novo_tema_regra \/ editar_tema_regra \/ deletar_tema_regra

SpecVinculo == InitVinculo /\ [][NextVinculo]_vars

(***************************************************************************)
(* Scheduled days                                                          *)
(***************************************************************************)
DiaComunicacao(dia, tema_regra_id) == [dia |-> dia, tema_regra_id |-> tema_regra_id]

\* The integers a form may carry as the day: int() accepts any of them
DiaInputs == {-1, 0, 1, fim_dia_valor}

\* The day values of the stores drawn for the diagram generator
DiaDiagrama == {0, 1}

NovoDia(D, dia, tr_id) == Insere(D, NovoId(D), DiaComunicacao(dia, tr_id))

EditarDia(D, dia_id, dia, tr_id) == [D EXCEPT ![dia_id] = DiaComunicacao(dia, tr_id)]

novo_dia ==
    \E dia \in DiaInputs, tr_id \in 1..MaxLinks :
        /\ Get(links, tr_id) # NULL
        /\ NovoId(dias) <= MaxDias
        /\ dias' = NovoDia(dias, dia, tr_id)
        /\ resp' = Redirect
        /\ diagrama' = SemDiagrama
        /\ UNCHANGED <<temas, regras, links, cadeia, passeio>>

editar_dia ==
    \E dia_id \in DOMAIN dias, dia \in DiaInputs, tr_id \in 1..MaxLinks :
        /\ dias' = EditarDia(dias, dia_id, dia, tr_id)
        /\ dias'[dia_id].tema_regra_id \in DOMAIN links
        /\ resp' = Redirect
        /\ diagrama' = SemDiagrama
        /\ UNCHANGED <<temas, regras, links, cadeia, passeio>>

deletar_dia ==
    \E dia_id \in DOMAIN dias :
        /\ dias' = Remove(dias, {dia_id})
        /\ resp' = Redirect
        /\ diagrama' = SemDiagrama
        /\ UNCHANGED <<temas, regras, links, cadeia, passeio>>

(***************************************************************************)
(* The diagram generator                                                   *)
(***************************************************************************)
\* A node identifier is the text pre, then nums joined by "_", then "_" suf:
\* D{n}, SD, ST{dia}_{idx}_{nivel}_ENTRY, ST{dia}_{idx}_{nivel}_MSG.  Two
\* identifiers are the same text exactly when the three parts agree.
NodeId(pre, nums, suf) == [pre |-> pre, nums |-> nums, suf |-> suf]

DiaNode(n) == NodeId("D", <<n>>, "")

fim_node_id == DiaNode(fim_dia_valor)

SD == NodeId("SD", <<>>, "")

EntryId(dia_valor, idx, nivel) == NodeId("ST", <<dia_valor, idx, nivel>>, "ENTRY")

MsgId(dia_valor, idx, nivel) == NodeId("ST", <<dia_valor, idx, nivel>>, "MSG")

Decl(id, forma) == [id |-> id, forma |-> forma]

Edge(de, para, rotulo) == [de |-> de, para |-> para, rotulo |-> rotulo]

RECURSIVE Concat(_)
Concat(ss) == IF ss = <<>> THEN <<>> ELSE Head(ss) \o Concat(Tail(ss))

\* The loop with the visited test after the append: a link met again is
\* appended once more before the walk stops
RECURSIVE CadeiaLoopRepete(_, _, _, _, _)
CadeiaLoopRepete(L, corrente, visitados, cad, passos) ==
    IF corrente = NULL
    THEN [cadeia |-> cad, passos |-> passos]
    ELSE IF corrente \in visitados
    THEN [cadeia |-> Append(cad, corrente), passos |-> passos + 1]
    ELSE LET prox_id == L[corrente].alternativa_id
         IN  CadeiaLoopRepete(L, IF prox_id # NULL THEN Get(L, prox_id) ELSE NULL,
                              visitados \cup {corrente}, Append(cad, corrente),
                              passos + 1)

\* The while loop of cadeia_alternativas, counting its iterations
RECURSIVE CadeiaLoop(_, _, _, _, _)
CadeiaLoop(L, corrente, visitados, cad, passos) ==
    IF corrente = NULL \/ corrente \in visitados
    THEN [cadeia |-> cad, passos |-> passos]
    ELSE LET prox_id == L[corrente].alternativa_id
         IN  CadeiaLoop(L, IF prox_id # NULL THEN Get(L, prox_id) ELSE NULL,
                        visitados \cup {corrente}, Append(cad, corrente), passos + 1)

cadeia_alternativas(L, tr_inicial) == CadeiaLoop(L, tr_inicial, {}, <<>>, 0)

ordered_days(D) == sorted({D[d].dia : d \in DOMAIN D})

\* por_dia[n]: the records of day n in the query's order (dia, id)
por_dia(D, n) == sorted({d \in DOMAIN D : D[d].dia = n})

Descricao(L, R, tr) == IF L[tr].regra_id \in DOMAIN R THEN R[L[tr].regra_id] ELSE <<>>

\* etapas of one record: one entry per chain step, nivel counted from 0
Etapas(L, R, dia_valor, idx, cad) ==
    [k \in 1..Len(cad) |->
        LET regra_tem == has_rule(Descricao(L, R, cad[k]))
        IN  [nivel |-> k - 1,
             entry_id |-> IF regra_tem THEN EntryId(dia_valor, idx, k - 1)
                          ELSE MsgId(dia_valor, idx, k - 1),
             msg_id |-> MsgId(dia_valor, idx, k - 1),
             has_rule |-> regra_tem]]

DeclsEtapas(etapas) ==
    Concat([k \in 1..Len(etapas) |->
        (IF etapas[k].has_rule THEN <<Decl(etapas[k].entry_id, "decisao")>> ELSE <<>>)
        \o <<Decl(etapas[k].msg_id, "msg")>>])

\* The edges with every non-final 'no' edge going to the next step's message
\* node, past the next step's decision node
EdgesEtapasNaoParaMsg(dia_valor, etapas) ==
    Concat([k \in 1..Len(etapas) |->
        LET entry_id == etapas[k].entry_id
            msg_id == etapas[k].msg_id
        IN  IF etapas[k].has_rule
            THEN (IF k = 1 THEN <<Edge(DiaNode(dia_valor), entry_id, "")>> ELSE <<>>)
                 \o <<Edge(entry_id, msg_id, "Sim")>>
                 \o (IF k < Len(etapas)
                     THEN <<Edge(entry_id, etapas[k + 1].msg_id, "Nao")>>
                     ELSE <<Edge(entry_id, msg_id, "Nao")>>)
            ELSE (IF k = 1 THEN <<Edge(DiaNode(dia_valor), msg_id, "")>> ELSE <<>>)])

EdgesEtapas(dia_valor, etapas) ==
    Concat([k \in 1..Len(etapas) |->
        LET entry_id == etapas[k].entry_id
            msg_id == etapas[k].msg_id
        IN  IF etapas[k].has_rule
            THEN (IF k = 1 THEN <<Edge(DiaNode(dia_valor), entry_id, "")>> ELSE <<>>)
                 \o <<Edge(entry_id, msg_id, "Sim")>>
                 \o (IF k < Len(etapas)
                     THEN <<Edge(entry_id, etapas[k + 1].entry_id, "Nao")>>
                     ELSE <<Edge(entry_id, msg_id, "Nao")>>)
            ELSE (IF k = 1 THEN <<Edge(DiaNode(dia_valor), msg_id, "")>> ELSE <<>>)])

DecisoesEtapas(etapas) ==
    Concat([k \in 1..Len(etapas) |->
        IF etapas[k].has_rule THEN <<etapas[k].entry_id>> ELSE <<>>])

\* What one record of a day adds to the diagram
Bloco(L, R, D, dia_valor, idx, registro) ==
    LET tema_regra == Get(L, D[registro].tema_regra_id)
        cad == IF tema_regra = NULL THEN <<>> ELSE cadeia_alternativas(L, tema_regra).cadeia
        etapas == Etapas(L, R, dia_valor, idx, cad)
    IN  [nodes |-> DeclsEtapas(etapas),
         edges |-> EdgesEtapas(dia_valor, etapas),
         decision_nodes |-> DecisoesEtapas(etapas)]

\* The record loop leaving a day at the first record whose link lookup
\* misses: the later records of that day add nothing
BlocosInterrompe(L, R, D) ==
    LET od == ordered_days(D)
    IN  Concat([i \in 1..Len(od) |->
            LET blocos == por_dia(D, od[i])
            IN  [j \in 1..Len(blocos) |->
                    IF \A h \in 1..j : Get(L, D[blocos[h]].tema_regra_id) # NULL
                    THEN Bloco(L, R, D, od[i], j, blocos[j])
                    ELSE [nodes |-> <<>>, edges |-> <<>>, decision_nodes |-> <<>>]]])

Blocos(L, R, D) ==
    LET od == ordered_days(D)
    IN  Concat([i \in 1..Len(od) |->
            LET blocos == por_dia(D, od[i])
            IN  [j \in 1..Len(blocos) |-> Bloco(L, R, D, od[i], j, blocos[j])]])

SpineEdges(od) ==
    [i \in 1..(Len(od) - 1) |-> Edge(DiaNode(od[i]), DiaNode(od[i + 1]), "")]
    \o <<Edge(DiaNode(od[Len(od)]), fim_node_id, "")>>

\* The empty-schedule lines without the placeholder's edge
DiagramaVazioSemAresta ==
    [nodes |-> <<Decl(SD, "placeholder"), Decl(fim_node_id, "dia")>>,
     edges |-> <<>>,
     day_nodes |-> <<fim_node_id>>,
     decision_nodes |-> <<>>]

\* The lines returned when no day is stored
DiagramaVazio ==
    [nodes |-> <<Decl(SD, "placeholder"), Decl(fim_node_id, "dia")>>,
     edges |-> <<Edge(SD, fim_node_id, "")>>,
     day_nodes |-> <<fim_node_id>>,
     decision_nodes |-> <<>>]

gerar_diagrama_mermaid(L, R, D) ==
    LET od == ordered_days(D)
        bs == Blocos(L, R, D)
    IN  IF od = <<>>
        THEN DiagramaVazio
        ELSE [nodes |-> [i \in 1..Len(od) |-> Decl(DiaNode(od[i]), "dia")]
                        \o <<Decl(fim_node_id, "dia")>>
                        \o Concat([i \in 1..Len(bs) |-> bs[i].nodes]),
              edges |-> SpineEdges(od) \o Concat([i \in 1..Len(bs) |-> bs[i].edges]),
              day_nodes |-> [i \in 1..Len(od) |-> DiaNode(od[i])] \o <<fim_node_id>>,
              decision_nodes |-> Concat([i \in 1..Len(bs) |-> bs[i].decision_nodes])]

uml ==
    /\ diagrama' = gerar_diagrama_mermaid(links, regras, dias)
    /\ resp' = Resposta("uml", NULL, SemVinculo)
    /\ UNCHANGED <<temas, regras, links, dias, cadeia, passeio>>

\* The schedule and the diagram, over a store that holds one theme, the
\* default rule and one real rule (the theme and rule handlers lead there) and
\* no link and no day yet.  Links are created and deleted here; their edits
\* are the subject of SpecVinculo.
Init ==
    /\ temas = {1}
    /\ regras = RegrasIniciais
    /\ links = Tabela0
    /\ dias = Tabela0
    /\ resp = Resposta("inicio", NULL, SemVinculo)
    /\ diagrama = SemDiagrama
    /\ cadeia = SemCadeia
    /\ passeio = SemPasseio

Next ==
    \/ novo_tema_regra
    \/ deletar_tema_regra
    \/ novo_dia
    \/ editar_dia
    \/ deletar_dia
    \/ uml

Spec == Init /\ [][Next]_vars

(***************************************************************************)
(* The diagram generator on its own, over stores drawn at once             *)
(***************************************************************************)
\* A rule table with the default rule, a real rule and a rule whose
\* description is blank
RegrasDiagrama == Insere(RegrasIniciais, 3, Branco)

\* Links 1..n, each the alternativa of the link created after it, so that a
\* record naming link t resolves to a chain of t steps; every link under any
\* rule of a table of two or three rules; and up to MaxDias records whose
\* tema_regra_id is a stored link or the first id past them, which the link
\* lookup of the generator misses
InitDiagrama ==
    /\ temas = {1}
    /\ regras \in {RegrasIniciais, RegrasDiagrama}
    /\ \E n \in 0..MaxLinks :
          /\ links \in [1..n -> {TemaRegra(1, r, a) : r \in DOMAIN regras, a \in 0..n}]
          /\ \A k \in 1..n : links[k].alternativa_id = k - 1
          /\ \E m \in 0..MaxDias :
                dias \in [1..m -> {DiaComunicacao(d, t) : d \in DiaDiagrama,
                                                         t \in 1..(n + 1)}]
    /\ resp = Resposta("inicio", NULL, SemVinculo)
    /\ diagrama = SemDiagrama
    /\ cadeia = SemCadeia
    /\ passeio = SemPasseio

NextDiagrama == uml

SpecDiagrama == InitDiagrama /\ [][NextDiagrama]_vars

\* The stores drawn for a record that misses the link lookup: the same
\* links and records under the table of two rules
InitSemVinculo ==
    /\ temas = {1}
    /\ regras = RegrasIniciais
    /\ \E n \in 0..MaxLinks :
          /\ links \in [1..n -> {TemaRegra(1, r, a) : r \in DOMAIN regras, a \in 0..n}]
          /\ \A k \in 1..n : links[k].alternativa_id = k - 1
          /\ \E m \in 0..MaxDias :
                dias \in [1..m -> {DiaComunicacao(d, t) : d \in DiaDiagrama,
                                                         t \in 1..(n + 1)}]
    /\ resp = Resposta("inicio", NULL, SemVinculo)
    /\ diagrama = SemDiagrama
    /\ cadeia = SemCadeia
    /\ passeio = SemPasseio

NextSemVinculo == uml

SpecSemVinculo == InitSemVinculo /\ [][NextSemVinculo]_vars

(***************************************************************************)
(* The chain resolver on its own, over every alternativa graph             *)
(***************************************************************************)
\* Any graph over up to MaxLinks rows: alternativa may be NULL, a stored row
\* (cycles included) or a row that does not exist
InitCadeia ==
    /\ temas = {1}
    /\ regras = RegrasIniciais
    /\ \E S \in SUBSET (1..MaxLinks) :
          /\ S # {}
          /\ links \in [S -> {TemaRegra(1, 1, a) : a \in 0..(MaxLinks + 1)}]
    /\ dias = Tabela0
    /\ resp = Resposta("inicio", NULL, SemVinculo)
    /\ diagrama = SemDiagrama
    /\ cadeia = SemCadeia
    /\ passeio = SemPasseio

resolver_cadeia ==
    \E tr_inicial \in DOMAIN links :
        LET r == cadeia_alternativas(links, tr_inicial)
        IN  /\ cadeia' = [inicial |-> tr_inicial, cadeia |-> r.cadeia, passos |-> r.passos]
            /\ UNCHANGED <<temas, regras, links, dias, resp, diagrama, passeio>>

\* The cycle-check walk on its own: any stored link as the edited one, any
\* non-NULL id as the proposed target, stored or not
verificar_ciclo ==
    \E tr_id \in DOMAIN links, alternativa_id \in 1..(MaxLinks + 1) :
        LET r == PasseioCiclo(links, tr_id, alternativa_id)
        IN  /\ passeio' = [tr_id |-> tr_id, alvo |-> alternativa_id, ciclo |-> r.ciclo,
                           passos |-> r.passos, corrente |-> r.corrente,
                           visitados |-> r.visitados]
            /\ UNCHANGED <<temas, regras, links, dias, resp, diagrama, cadeia>>

NextCadeia == resolver_cadeia \/ verificar_ciclo

SpecCadeia == InitCadeia /\ [][NextCadeia]_vars

(***************************************************************************)
(* Rules                                                                   *)
(***************************************************************************)
\* The descriptions a form may carry
DescricaoInputs == {SemRegra, sem_regra, Abriu, Branco}

Padrao(R) == {id \in DOMAIN R : R[id] = SemRegra}

ensure_regra_padrao(R) == IF Padrao(R) = {} THEN Insere(R, NovoId(R), SemRegra) ELSE R

NovoRegra(R, descricao) ==
    LET R1 == ensure_regra_padrao(R) IN Insere(R1, NovoId(R1), descricao)

EditarRegra(R, regra_id, descricao) ==
    [ensure_regra_padrao(R) EXCEPT ![regra_id] = descricao]

\* ON DELETE CASCADE of temas_regras.regra_id
VinculosDe(L, regra_id) == {tr \in DOMAIN L : L[tr].regra_id = regra_id}

\* home, and the GET of the rule forms: ensure_regra_padrao and nothing else
home ==
    /\ regras' = ensure_regra_padrao(regras)
    /\ DOMAIN regras' \subseteq 1..MaxRegras
    /\ resp' = Resposta("home", NULL, SemVinculo)
    /\ diagrama' = SemDiagrama
    /\ UNCHANGED <<temas, links, dias, cadeia, passeio>>

novo_regra ==
    \E descricao \in DescricaoInputs :
        /\ regras' = NovoRegra(regras, descricao)
        /\ DOMAIN regras' \subseteq 1..MaxRegras
        /\ resp' = Redirect
        /\ diagrama' = SemDiagrama
        /\ UNCHANGED <<temas, links, dias, cadeia, passeio>>

editar_regra ==
    \E regra_id \in DOMAIN regras, descricao \in DescricaoInputs :
        /\ regras' = EditarRegra(regras, regra_id, descricao)
        /\ DOMAIN regras' \subseteq 1..MaxRegras
        /\ resp' = Redirect
        /\ diagrama' = SemDiagrama
        /\ UNCHANGED <<temas, links, dias, cadeia, passeio>>

deletar_regra ==
    \E regra_id \in DOMAIN regras :
        LET mortos == VinculosDe(links, regra_id)
        IN  /\ regras' = Remove(regras, {regra_id})
            /\ links' = AnulaAlternativa(Remove(links, mortos), mortos)
            /\ dias' = DiasSem(dias, mortos)
            /\ resp' = Redirect
            /\ diagrama' = SemDiagrama
            /\ UNCHANGED <<temas, cadeia, passeio>>

\* The rule handlers on their own, from the empty store create_app leaves
InitRegra ==
    /\ temas = {}
    /\ regras = Tabela0
    /\ links = Tabela0
    /\ dias = Tabela0
    /\ resp = Resposta("inicio", NULL, SemVinculo)
    /\ diagrama = SemDiagrama
    /\ cadeia = SemCadeia
    /\ passeio = SemPasseio

NextRegra == home \/ novo_regra \/ editar_regra \/ deletar_regra

SpecRegra == InitRegra /\ [][NextRegra]_vars

(***************************************************************************)
(* Walking the alternativa graph, independently of the handlers            *)
(***************************************************************************)
\* The rows met within n steps when walking alternativa from row x (x included)
RECURSIVE Percorre(_, _, _)
Percorre(L, x, n) ==
    IF x \notin DOMAIN L THEN {}
    ELSE IF n = 0 \/ L[x].alternativa_id = NULL THEN {x}
    ELSE {x} \cup Percorre(L, L[x].alternativa_id, n - 1)

\* The rows met walking from b, b included
Alcanca(L, b) == Percorre(L, b, Cardinality(DOMAIN L))

\* The rows met walking from b after one or more steps
AlcancaAdiante(L, b) ==
    IF b \in DOMAIN L /\ L[b].alternativa_id # NULL
    THEN Alcanca(L, L[b].alternativa_id)
    ELSE {}

\* C1: after any sequence of link create, edit and delete operations from an
\* empty store, no link reaches itself by following alternativa_id one or
\* more times
C1_GrafoSemCiclo == \A a \in DOMAIN links : a \notin AlcancaAdiante(links, a)

\* C2: in every reachable store, an edit of a link A that submits A's own id
\* as its alternativa is rejected by the cycle check, whatever theme and rule
\* it submits and whatever A's current alternativa is, and no stored link has
\* itself as alternativa
C2_AutoReferenciaRejeitada ==
    \A a \in DOMAIN links :
        /\ links[a].alternativa_id # a
        /\ \A tema_id \in temas, regra_id \in DOMAIN regras :
               EditarTemaRegra(links, a, tema_id, regra_id, a).resp.tipo = "ciclo"

\* C3: for every pair of stored links (A, B), the edit-time cycle check
\* (edit A, proposed alternativa B) reports a cycle if and only if walking
\* forward along alternativa from B reaches A.  Each direction is stated in
\* the reading of "reaches" that asks least of the code: a reported cycle
\* needs A among the rows met from B, B included; a walk that meets A after
\* one or more steps needs a reported cycle
C3_CicloSseAlcanca ==
    \A a \in DOMAIN links, b \in DOMAIN links :
        /\ GeraCiclo(links, a, b) => a \in Alcanca(links, b)
        /\ a \in AlcancaAdiante(links, b) => GeraCiclo(links, a, b)

\* C4: when editar_tema_regra rejects an edit because of a cycle, the store
\* is exactly what it was before the request: the theme, rule and alternativa
\* of the edited link and of every other link, and every other table
C4_RejeicaoNaoAltera ==
    [][resp'.tipo = "ciclo" =>
          /\ links' = links
          /\ dias' = dias
          /\ regras' = regras
          /\ temas' = temas]_vars

\* A rejected edit of a link that had another alternativa than the submitted
\* one and that submitted another rule than the stored one, which the store
\* still holds
C4_Witness ==
    /\ resp.tipo = "ciclo"
    /\ resp.tr_id \in DOMAIN links
    /\ resp.tema_regra.regra_id # links[resp.tr_id].regra_id
    /\ links[resp.tr_id].alternativa_id # resp.tr_id
    /\ Cardinality(DOMAIN links) >= 2

(***************************************************************************)
(* Diagrams                                                                *)
(***************************************************************************)
\* The nodes reachable from the set S along the emitted edges E
RECURSIVE Fecho(_, _)
Fecho(E, S) ==
    LET N == S \cup {E[i].para : i \in {j \in DOMAIN E : E[j].de \in S}}
    IN  IF N = S THEN S ELSE Fecho(E, N)

Gerado == resp.tipo = "uml"

DiasGuardados == {dias[d].dia : d \in DOMAIN dias}

\* The emitted edges between two day-shaped identifiers
Spine == {i \in DOMAIN diagrama.edges :
            diagrama.edges[i].de.pre = "D" /\ diagrama.edges[i].para.pre = "D"}

\* C6: in every generated diagram, every declared decision node and message
\* node is the target of an emitted edge and is reachable from the node of
\* its day along emitted edges
C6_SemNoSolto ==
    Gerado =>
        \A i \in DOMAIN diagrama.nodes :
            LET no == diagrama.nodes[i]
            IN  no.forma \in {"decisao", "msg"} =>
                  /\ \E j \in DOMAIN diagrama.edges : diagrama.edges[j].para = no.id
                  /\ no.id \in Fecho(diagrama.edges, {DiaNode(no.id.nums[1])})

\* C7: in every diagram generated from a non-empty schedule, the spine edges
\* are exactly one edge from each stored day to the next larger stored day and
\* one from the largest stored day to the terminal node, and the terminal
\* node has no outgoing spine edge
C7_EspinhaCrescente ==
    (Gerado /\ DiasGuardados # {}) =>
        /\ {<<diagrama.edges[i].de, diagrama.edges[i].para>> : i \in Spine}
             = {<<DiaNode(a), DiaNode(b)>> : <<a, b>> \in
                   {p \in DiasGuardados \X DiasGuardados :
                       /\ p[1] < p[2]
                       /\ ~ \E c \in DiasGuardados : p[1] < c /\ c < p[2]}}
               \cup {<<DiaNode(Max(DiasGuardados)), fim_node_id>>}
        /\ Cardinality(Spine) = Cardinality(DiasGuardados)
        /\ \A i \in Spine : diagrama.edges[i].de # fim_node_id

\* C8: in every generated diagram the declared node identifiers are pairwise
\* distinct, and the terminal node's identifier is not the identifier of the
\* day node of any stored day
C8_IdentificadoresDistintos ==
    Gerado =>
        /\ \A i \in DOMAIN diagrama.nodes, j \in DOMAIN diagrama.nodes :
              i # j => diagrama.nodes[i].id # diagrama.nodes[j].id
        /\ \A n \in DiasGuardados : DiaNode(n) # fim_node_id

\* C10: after any sequence of novo_dia and editar_dia, every stored day
\* number is greater than or equal to zero, and no generated diagram has a
\* day node of a negative day
C10_DiaNaoNegativo ==
    /\ \A d \in DOMAIN dias : dias[d].dia >= 0
    /\ \A i \in DOMAIN diagrama.day_nodes : diagrama.day_nodes[i].nums[1] >= 0

(***************************************************************************)
(* Chains and rules                                                        *)
(***************************************************************************)
\* C5: for every starting link and every alternativa graph, cycles and
\* dangling ids included, cadeia_alternativas returns a sequence that starts
\* with the input link, in which each next element is the previous element's
\* alternativa, that holds no link id twice, and it is built in at most as
\* many loop iterations as there are links
C5_CadeiaSemRepeticao ==
    cadeia.inicial # NULL =>
        /\ Len(cadeia.cadeia) >= 1
        /\ cadeia.cadeia[1] = cadeia.inicial
        /\ \A i \in 1..(Len(cadeia.cadeia) - 1) :
              cadeia.cadeia[i + 1] = links[cadeia.cadeia[i]].alternativa_id
        /\ \A i \in DOMAIN cadeia.cadeia, j \in DOMAIN cadeia.cadeia :
              i # j => cadeia.cadeia[i] # cadeia.cadeia[j]
        /\ cadeia.passos <= Cardinality(DOMAIN links)

\* A chain of two or more links cut where the alternativa of its last link
\* leads back into the chain
C5_Witness ==
    /\ cadeia.inicial # NULL
    /\ Len(cadeia.cadeia) >= 2
    /\ \E i \in DOMAIN cadeia.cadeia :
          links[cadeia.cadeia[Len(cadeia.cadeia)]].alternativa_id = cadeia.cadeia[i]

\* C9: once ensure_regra_padrao has run (every request of the rule handlers
\* but the delete runs it, and nothing can be deleted before one of them),
\* the store holds exactly one rule whose description is 'Sem Regra'
C9_UmaRegraPadrao ==
    resp.tipo # "inicio" => Cardinality(Padrao(regras)) = 1

(***************************************************************************)
(* The per-record part of a diagram                                        *)
(***************************************************************************)
\* The position (from 1) of record d among the records of its day
Indice(D, d) == Cardinality({e \in DOMAIN D : D[e].dia = D[d].dia /\ e <= d})

\* The identifiers ST{dia}_{idx}_..., those of one record of one day
DoRegistro(id, dia_valor, idx) ==
    id.pre = "ST" /\ id.nums[1] = dia_valor /\ id.nums[2] = idx

NodesFora(G, dia_valor, idx) ==
    LET fora(n) == ~DoRegistro(n.id, dia_valor, idx)
    IN  SelectSeq(G.nodes, fora)

EdgesFora(G, dia_valor, idx) ==
    LET fora(e) == ~DoRegistro(e.de, dia_valor, idx) /\ ~DoRegistro(e.para, dia_valor, idx)
    IN  SelectSeq(G.edges, fora)

DecisoesFora(G, dia_valor, idx) ==
    LET fora(id) == ~DoRegistro(id, dia_valor, idx)
    IN  SelectSeq(G.decision_nodes, fora)

SemVinculoGuardado(d) == Get(links, dias[d].tema_regra_id) = NULL

\* C11: a record whose link id misses the link lookup is skipped: no decision
\* node, message node or edge carries its identifiers, its day node is still
\* declared and still has its edge along the spine, and what the diagram
\* holds for the other records is what it holds for them when the same
\* record does resolve, to any stored link
C11_RegistroSemVinculoIgnorado ==
    Gerado =>
        \A m \in DOMAIN dias :
            SemVinculoGuardado(m) =>
                LET dv == dias[m].dia
                    ix == Indice(dias, m)
                IN  /\ NodesFora(diagrama, dv, ix) = diagrama.nodes
                    /\ EdgesFora(diagrama, dv, ix) = diagrama.edges
                    /\ DecisoesFora(diagrama, dv, ix) = diagrama.decision_nodes
                    /\ \E i \in DOMAIN diagrama.nodes :
                          diagrama.nodes[i] = Decl(DiaNode(dv), "dia")
                    /\ \E i \in Spine : diagrama.edges[i].de = DiaNode(dv)
                    /\ \A t \in DOMAIN links :
                          \A G \in {gerar_diagrama_mermaid(
                                        links, regras, [dias EXCEPT ![m].tema_regra_id = t])} :
                              /\ NodesFora(G, dv, ix) = diagrama.nodes
                              /\ EdgesFora(G, dv, ix) = diagrama.edges
                              /\ DecisoesFora(G, dv, ix) = diagrama.decision_nodes
                              /\ G.day_nodes = diagrama.day_nodes

\* A diagram of a day whose first record misses the lookup and whose second
\* record resolves and has its decision node and message node declared
C11_Witness ==
    /\ Gerado
    /\ \E m, r \in DOMAIN dias :
          /\ SemVinculoGuardado(m)
          /\ ~SemVinculoGuardado(r)
          /\ dias[r].dia = dias[m].dia
          /\ Indice(dias, m) = 1
          /\ Indice(dias, r) = 2
          /\ \E i, j \in DOMAIN diagrama.nodes :
                /\ diagrama.nodes[i] = Decl(EntryId(dias[r].dia, 2, 0), "decisao")
                /\ diagrama.nodes[j] = Decl(MsgId(dias[r].dia, 2, 0), "msg")

\* C12: with no record stored the diagram has exactly two nodes, the
\* placeholder and the terminal node, and exactly one edge, from the
\* placeholder to the terminal node, whatever rules and links are stored
C12_DiagramaSemDias ==
    (Gerado /\ DOMAIN dias = {}) =>
        /\ Len(diagrama.nodes) = 2
        /\ {diagrama.nodes[i].id : i \in DOMAIN diagrama.nodes}
               = {NodeId("SD", <<>>, ""), NodeId("D", <<fim_dia_valor>>, "")}
        /\ Len(diagrama.edges) = 1
        /\ diagrama.edges[1].de = NodeId("SD", <<>>, "")
        /\ diagrama.edges[1].para = NodeId("D", <<fim_dia_valor>>, "")

\* A diagram generated with no record stored while the store holds the most
\* links it can and three rules
C12_Witness ==
    /\ Gerado
    /\ DOMAIN dias = {}
    /\ Cardinality(DOMAIN links) = MaxLinks
    /\ Cardinality(DOMAIN regras) = 3
    /\ Len(diagrama.nodes) = 2

\* The records whose link resolves, and the chain of such a record
Resolvidos == {d \in DOMAIN dias : ~SemVinculoGuardado(d)}

CadeiaDe(d) == cadeia_alternativas(links, dias[d].tema_regra_id).cadeia

\* Whether step k (from 1) of the chain of record d has a real rule
TemRegra(d, k) == has_rule(Descricao(links, regras, CadeiaDe(d)[k]))

\* The targets of the 'no' edges that leave the decision node of step k
AlvosNao(d, k) ==
    LET de == EntryId(dias[d].dia, Indice(dias, d), k - 1)
    IN  {diagrama.edges[i].para :
            i \in {j \in DOMAIN diagrama.edges :
                      diagrama.edges[j].de = de /\ diagrama.edges[j].rotulo = "Nao"}}

\* C13 as stated: the 'no' edge of a step that is not final goes to the next
\* step's decision node, or to the next step's message node if that step is
\* the last or has no real rule; the final step's 'no' edge goes to its own
\* message node
C13_NaoComoEscrito ==
    Gerado =>
        \A d \in Resolvidos :
            \A k \in 1..Len(CadeiaDe(d)) :
                TemRegra(d, k) =>
                    LET dv == dias[d].dia
                        ix == Indice(dias, d)
                        n == Len(CadeiaDe(d))
                    IN  AlvosNao(d, k) =
                            {IF k = n THEN MsgId(dv, ix, k - 1)
                             ELSE IF k + 1 = n \/ ~TemRegra(d, k + 1)
                                  THEN MsgId(dv, ix, k)
                                  ELSE EntryId(dv, ix, k)}

\* C13 amended: the 'no' edge of a step that is not final goes to the next
\* step's decision node whenever the next step has a real rule, the last
\* step included, and to the next step's message node when it has none; the
\* final step's 'no' edge goes to its own message node
C13_NaoParaProximaEntrada ==
    Gerado =>
        \A d \in Resolvidos :
            \A k \in 1..Len(CadeiaDe(d)) :
                TemRegra(d, k) =>
                    LET dv == dias[d].dia
                        ix == Indice(dias, d)
                        n == Len(CadeiaDe(d))
                    IN  AlvosNao(d, k) =
                            {IF k = n THEN MsgId(dv, ix, k - 1)
                             ELSE IF TemRegra(d, k + 1)
                                  THEN EntryId(dv, ix, k)
                                  ELSE MsgId(dv, ix, k)}

\* A diagram of a record whose chain has three steps, each with a real rule:
\* the first 'no' edge goes to the second decision node, the second to the
\* decision node of the last step, the last to its own message node
C13_Witness ==
    /\ Gerado
    /\ \E d \in Resolvidos :
          /\ Len(CadeiaDe(d)) = 3
          /\ \A k \in 1..3 : TemRegra(d, k)
          /\ AlvosNao(d, 1) = {EntryId(dias[d].dia, Indice(dias, d), 1)}
          /\ AlvosNao(d, 2) = {EntryId(dias[d].dia, Indice(dias, d), 2)}
          /\ AlvosNao(d, 3) = {MsgId(dias[d].dia, Indice(dias, d), 2)}

\* A description that is blank or, whatever its case, the default sentinel
BrancaOuPadrao(descricao) ==
    \/ \A i \in DOMAIN descricao : descricao[i] \in Espacos
    \/ lower(strip(descricao)) = sem_regra

RegraReal(d, k) == ~BrancaOuPadrao(Descricao(links, regras, CadeiaDe(d)[k]))

\* The positions of the declarations of one identifier
Declaracoes(id) == {i \in DOMAIN diagrama.nodes : diagrama.nodes[i].id = id}

\* The positions of the edges that touch the identifiers of record d
ArestasDe(d) ==
    {i \in DOMAIN diagrama.edges :
        \/ DoRegistro(diagrama.edges[i].de, dias[d].dia, Indice(dias, d))
        \/ DoRegistro(diagrama.edges[i].para, dias[d].dia, Indice(dias, d))}

\* C14: for every record whose link resolves the diagram declares one message
\* node per step of the chain, one decision node per step whose rule is
\* neither blank nor the sentinel, and no other node for the record; a chain
\* of one step with a blank or sentinel rule gives one message node, no
\* decision node and the single edge from the day node to the message node
C14_NosPorEtapa ==
    Gerado =>
        \A d \in Resolvidos :
            LET dv == dias[d].dia
                ix == Indice(dias, d)
                n == Len(CadeiaDe(d))
                reais == {k \in 1..n : RegraReal(d, k)}
            IN  /\ \A k \in 1..n :
                      /\ Cardinality(Declaracoes(MsgId(dv, ix, k - 1))) = 1
                      /\ \A i \in Declaracoes(MsgId(dv, ix, k - 1)) :
                            diagrama.nodes[i].forma = "msg"
                      /\ Cardinality(Declaracoes(EntryId(dv, ix, k - 1)))
                            = IF k \in reais THEN 1 ELSE 0
                      /\ \A i \in Declaracoes(EntryId(dv, ix, k - 1)) :
                            diagrama.nodes[i].forma = "decisao"
                /\ Cardinality({i \in DOMAIN diagrama.nodes :
                                    DoRegistro(diagrama.nodes[i].id, dv, ix)})
                      = n + Cardinality(reais)
                /\ (n = 1 /\ reais = {}) =>
                      /\ Cardinality(ArestasDe(d)) = 1
                      /\ \A i \in ArestasDe(d) :
                            diagrama.edges[i] = Edge(DiaNode(dv), MsgId(dv, ix, 0), "")

\* A diagram of two records: one whose chain is a single step under the
\* blank rule, with one message node and one edge from its day node, and
\* one whose chain has a real rule, then the sentinel, then the blank rule,
\* with three message nodes and one decision node
C14_Witness ==
    /\ Gerado
    /\ \E d, e \in Resolvidos :
          /\ Len(CadeiaDe(d)) = 1
          /\ Descricao(links, regras, CadeiaDe(d)[1]) = Branco
          /\ Cardinality(ArestasDe(d)) = 1
          /\ Len(CadeiaDe(e)) = 3
          /\ Descricao(links, regras, CadeiaDe(e)[1]) = Abriu
          /\ Descricao(links, regras, CadeiaDe(e)[2]) = SemRegra
          /\ Cardinality({i \in DOMAIN diagrama.nodes :
                              DoRegistro(diagrama.nodes[i].id, dias[e].dia, Indice(dias, e))})
                = 4

\* A diagram of a record whose chain is a single step under the sentinel
\* rule, with one message node, no decision node and one edge
C14_WitnessPadrao ==
    /\ Gerado
    /\ \E d \in Resolvidos :
          /\ Len(CadeiaDe(d)) = 1
          /\ Descricao(links, regras, CadeiaDe(d)[1]) = SemRegra
          /\ Cardinality(ArestasDe(d)) = 1
          /\ Declaracoes(EntryId(dias[d].dia, Indice(dias, d), 0)) = {}

(***************************************************************************)
(* The walk of the edit-time cycle check                                   *)
(***************************************************************************)
Verificado == passeio.tr_id # NULL

\* The ids the walk may have put in visitados: the edited link and the
\* alternativa ids of stored links
Visitaveis ==
    {passeio.tr_id} \cup ({links[x].alternativa_id : x \in DOMAIN links} \ {NULL})

FimSemAlternativa ==
    /\ ~passeio.ciclo
    /\ passeio.corrente \in DOMAIN links
    /\ links[passeio.corrente].alternativa_id = NULL

FimVisitado ==
    /\ passeio.ciclo
    /\ passeio.corrente \in DOMAIN links
    /\ links[passeio.corrente].alternativa_id \in passeio.visitados

\* The walk stood on no link when it stopped: the target, or the alternativa
\* it followed last, names no stored link
FimSemLink ==
    /\ ~passeio.ciclo
    /\ passeio.corrente = NULL
    /\ \/ passeio.alvo \notin DOMAIN links
       \/ \E x \in Alcanca(links, passeio.alvo) :
             links[x].alternativa_id \notin DOMAIN links \cup {NULL}

\* The loop body ran once per id added to visitados, and once more when it
\* met a visited id; the ids are the edited link and alternativa ids of stored
\* links, so the body ran at most once per stored link
PasseioLimitado ==
    /\ passeio.tr_id \in passeio.visitados
    /\ passeio.visitados \subseteq Visitaveis
    /\ passeio.passos = Cardinality(passeio.visitados) - 1
                           + (IF passeio.ciclo THEN 1 ELSE 0)
    /\ passeio.passos <= Cardinality(DOMAIN links)

\* C15 as stated: for every stored graph and every proposed target, stored or
\* not, the walk ends within a bounded number of steps, either at a link
\* without alternativa or on meeting an already visited id
C15_PasseioComoEscrito ==
    Verificado => (PasseioLimitado /\ (FimSemAlternativa \/ FimVisitado))

\* C15 amended: for every stored graph and every proposed target, stored or
\* not, the walk ends within a bounded number of steps: at a link without
\* alternativa, or on no link at all when the target or a followed
\* alternativa names no stored link, or on meeting an already visited id
C15_PasseioTermina ==
    Verificado => (PasseioLimitado /\ (FimSemAlternativa \/ FimSemLink \/ FimVisitado))

\* A walk over a graph with a cycle that does not pass through the edited
\* link: it runs into the cycle from the target and stops on an id it visited
C15_Witness ==
    /\ Verificado
    /\ FimVisitado
    /\ passeio.passos = 3
    /\ passeio.tr_id \notin Alcanca(links, passeio.alvo)
    /\ links[passeio.corrente].alternativa_id # passeio.tr_id

====
